---- MODULE Spec2Model ----
(***************************************************************************)
(* Budget-Wise: recurring-transaction templates, the store procedures      *)
(* calculate_next_occurrence and process_recurring_transactions, and the   *)
(* client hook / page that drive them.                                     *)
(*                                                                         *)
(* Dates are calendar dates written as the integer YYYYMMDD, so that the   *)
(* order of the integers is the order of the dates (as for DATE values in  *)
(* the store and for ISO date strings in the client).                      *)
(***************************************************************************)
EXTENDS Integers, Sequences, FiniteSets, TLC

\* SQL NULL / JavaScript undefined, for text values and for dates.
NULL == "<null>"
NULL_DATE == 0

-----------------------------------------------------------------------------
(* Calendar arithmetic, as PostgreSQL performs date + interval.            *)

YearOf(d) == d \div 10000
MonthOf(d) == (d \div 100) % 100
DayOf(d) == d % 100
MkDate(y, m, dd) == y * 10000 + m * 100 + dd

IsLeap(y) == (y % 4 = 0 /\ y % 100 # 0) \/ y % 400 = 0

DaysInMonth(y, m) ==
  IF m = 2 THEN (IF IsLeap(y) THEN 29 ELSE 28)
  ELSE IF m \in {4, 6, 9, 11} THEN 30 ELSE 31

IsValidDate(d) ==
  /\ MonthOf(d) \in 1..12
  /\ DayOf(d) \in 1..DaysInMonth(YearOf(d), MonthOf(d))

NextDay(d) ==
  IF DayOf(d) < DaysInMonth(YearOf(d), MonthOf(d)) THEN d + 1
  ELSE IF MonthOf(d) < 12 THEN MkDate(YearOf(d), MonthOf(d) + 1, 1)
  ELSE MkDate(YearOf(d) + 1, 1, 1)

PrevDay(d) ==
  IF DayOf(d) > 1 THEN d - 1
  ELSE IF MonthOf(d) > 1
       THEN MkDate(YearOf(d), MonthOf(d) - 1, DaysInMonth(YearOf(d), MonthOf(d) - 1))
       ELSE MkDate(YearOf(d) - 1, 12, 31)

\* date + 'n days': n day steps forward (backward when n is negative).
RECURSIVE AddDays(_, _)
AddDays(d, n) ==
  IF n = 0 THEN d
  ELSE IF n > 0 THEN AddDays(NextDay(d), n - 1)
  ELSE AddDays(PrevDay(d), n + 1)

\* A plausible slip: the day is kept and the excess days roll over into the
\* following month (2024-01-31 plus one month = 2024-03-02).
AddMonths_RollOver(d, n) ==
  LET idx == YearOf(d) * 12 + (MonthOf(d) - 1) + n
      y   == idx \div 12
      m   == (idx % 12) + 1
      last == DaysInMonth(y, m)
  IN  IF DayOf(d) > last
      THEN AddDays(MkDate(y, m, last), DayOf(d) - last)
      ELSE MkDate(y, m, DayOf(d))

\* date + 'n months': the month moves by n and the day is clamped to the
\* last day of the resulting month.
AddMonths(d, n) ==
  LET idx == YearOf(d) * 12 + (MonthOf(d) - 1) + n
      y   == idx \div 12
      m   == (idx % 12) + 1
      last == DaysInMonth(y, m)
  IN  MkDate(y, m, IF DayOf(d) > last THEN last ELSE DayOf(d))

Frequencies == {"daily", "weekly", "monthly", "yearly"}

\* A plausible slip: a week counted as one day.
calculate_next_occurrence_WeekAsDay(current_date, frequency, frequency_value) ==
  CASE frequency = "daily"   -> AddDays(current_date, frequency_value)
    [] frequency = "weekly"  -> AddDays(current_date, frequency_value)
    [] frequency = "monthly" -> AddMonths(current_date, frequency_value)
    [] frequency = "yearly"  -> AddMonths(current_date, 12 * frequency_value)
    [] OTHER                 -> current_date

\* public.calculate_next_occurrence(current_date, frequency, frequency_value)
calculate_next_occurrence(current_date, frequency, frequency_value) ==
  CASE frequency = "daily"   -> AddDays(current_date, frequency_value)
    [] frequency = "weekly"  -> AddDays(current_date, 7 * frequency_value)
    [] frequency = "monthly" -> AddMonths(current_date, frequency_value)
    [] frequency = "yearly"  -> AddMonths(current_date, 12 * frequency_value)
    [] OTHER                 -> current_date

-----------------------------------------------------------------------------
(* Amounts. recurring_transactions.amount is NUMERIC (exact, any scale);   *)
(* transactions.amount is DECIMAL(10,2). An amount is whole units plus     *)
(* thousandths.                                                            *)

Amt(w, f) == [whole |-> w, frac |-> f]

\* DECIMAL(10,2) holds at most 8 digits before the decimal point.
Decimal10_2Limit == 100000000

\* Storing a NUMERIC into DECIMAL(10,2) rounds to two decimals, half away
\* from zero.
DecimalRound(a) ==
  LET f == ((a.frac + 5) \div 10) * 10
  IN  IF f = 1000 THEN Amt(a.whole + 1, 0) ELSE Amt(a.whole, f)

\* ... and raises "numeric field overflow" when the rounded value is too big.
DecimalFits(a) == DecimalRound(a).whole < Decimal10_2Limit

\* Number arithmetic on amounts: frac stays in 0..999, a negative value has a
\* negative whole part.
AmtAdd(a, b) ==
  LET f == a.frac + b.frac
  IN  IF f >= 1000 THEN Amt(a.whole + b.whole + 1, f - 1000)
      ELSE Amt(a.whole + b.whole, f)

AmtSub(a, b) ==
  LET f == a.frac - b.frac
  IN  IF f < 0 THEN Amt(a.whole - b.whole - 1, f + 1000)
      ELSE Amt(a.whole - b.whole, f)

\* Math.max(0, a)
AmtMax0(a) == IF a.whole < 0 THEN Amt(0, 0) ELSE a

-----------------------------------------------------------------------------
(* Bounds and input domains.                                               *)

\* Number of days the current date moves forward in a run.
MaxDays == 1
\* Cap on the rows of public.transactions.
MaxTransactions == 3
\* Largest interval in a direct call of calculate_next_occurrence.
MaxCalcInterval == 3

\* The owner of the seed rows, and the user of the session under study.
SeedUser == "afdc4f92-05c9-41da-8cf0-6b0adc63edae"
CurrentUser == "user-1"

\* CURRENT_DATE when the session starts.
FirstDay == MkDate(2025, 8, 1)

\* A seed template (the other seed rows are taken as deleted).
SeedTemplates ==
  { [id |-> 1, user_id |-> SeedUser, name |-> "Monthly Salary", type |-> "income",
     amount |-> Amt(5000, 0), category |-> "Salary",
     description |-> "Regular monthly salary",
     frequency |-> "monthly", frequency_value |-> 1,
     start_date |-> 20250101, end_date |-> NULL_DATE,
     next_occurrence |-> 20250801, is_active |-> TRUE] }

VARIABLES
  today,                  \* CURRENT_DATE
  db_recurring,           \* rows of public.recurring_transactions
  db_transactions,        \* rows of public.transactions
  nextId,                 \* stands for gen_random_uuid() and created_at order
  recurringTransactions,  \* hook state: the user's templates, newest first
  transactions,           \* hook state: the user's transactions
  lastScan,               \* what the latest "Process Now" reported, if nothing came after it
  occurrences,            \* history: per template, the dates materialized so far
  calc,                   \* a direct call of calculate_next_occurrence and its result
  db_budgets,             \* rows of public.budgets
  budgets,                \* hook state: the user's budgets, newest first
  inflight,               \* addTransaction calls, each with the budgets its closure holds
  lastOp,                 \* history: the latest change of the ledger and the state before it
  db_categories,          \* rows of public.categories
  categories,             \* hook state: the user's categories
  db_goals,               \* rows of public.goals
  goals,                  \* hook state: the user's goals, newest first
  lastFunds,              \* history: the latest add-funds action and the amounts before it
  notices,                \* what the latest AddTransaction submission showed and got back
  scanCalls,              \* per session: its process_recurring_transactions call in flight
  importResults,          \* what the latest importTransactions call returned
  memoryState,            \* use-toast: the toast state
  count,                  \* use-toast: the id counter
  lastAction,             \* history: the latest action dispatched to the toast reducer
  session,                \* App state: the session, or NULL
  loading,                \* App state: the first session check has not returned
  path,                   \* the browser's location
  authChanges             \* history: number of auth state changes seen

budgetVars == <<db_budgets, budgets, inflight, lastOp>>
categoryVars == <<db_categories, categories>>
goalVars == <<db_goals, goals, lastFunds>>
scanVars == <<scanCalls>>
importVars == <<importResults>>
toastVars == <<memoryState, count, lastAction>>
appVars == <<session, loading, path, authChanges>>
pageVars == <<goalVars, scanVars, importVars, toastVars, appVars>>
otherVars == <<pageVars, notices>>

vars == <<today, db_recurring, db_transactions, nextId, recurringTransactions,
          transactions, lastScan, occurrences, calc, budgetVars, categoryVars, otherVars>>

NoScan == [n |-> 0, ids |-> {}, count |-> 0, error |-> FALSE]
NoCall == [state |-> "none", d |-> NULL_DATE, f |-> NULL, n |-> 0,
           result |-> NULL_DATE, error |-> NULL]
NoOp == [op |-> "none", id |-> 0, type |-> NULL, category |-> NULL,
         amount |-> Amt(0, 0),
         budgets |-> <<>>, db_budgets |-> {}, transactions |-> <<>>,
         db_transactions |-> {}]

-----------------------------------------------------------------------------
(* The store.                                                              *)

\* WHERE clause of the due scan.
IsDue_IgnoringEndDate(rec, current) ==
  /\ rec.is_active = TRUE
  /\ rec.next_occurrence <= current

IsDue_IgnoringToday(rec, current) ==
  /\ rec.is_active = TRUE
  /\ (rec.end_date = NULL_DATE \/ rec.next_occurrence <= rec.end_date)

IsDue(rec, current) ==
  /\ rec.is_active = TRUE
  /\ rec.next_occurrence <= current
  /\ (rec.end_date = NULL_DATE \/ rec.next_occurrence <= rec.end_date)

COALESCE(a, b) == IF a # NULL THEN a ELSE b

\* VALUES (...) of the INSERT INTO public.transactions of the scan.
MaterializedRow(rec, id) ==
  [id |-> id, user_id |-> rec.user_id, type |-> rec.type,
   amount |-> DecimalRound(rec.amount), category |-> rec.category,
   description |-> COALESCE(rec.description, rec.name),
   date |-> rec.next_occurrence]

\* The UPDATE of the scan: next_occurrence moves on from the value the loop
\* read, by the template's own frequency and interval.
AdvancedRow_FromToday(rec, current) ==
  [rec EXCEPT !.next_occurrence =
     calculate_next_occurrence(current, rec.frequency, rec.frequency_value)]

AdvancedRow_Stuck(rec, current) == rec

AdvancedRow(rec, current) ==
  [rec EXCEPT !.next_occurrence =
     calculate_next_occurrence(rec.next_occurrence, rec.frequency, rec.frequency_value)]

\* Rows the FOR loop visits: the result of the SELECT at the start of the scan.
DueRows(rows, current) == {r \in rows : IsDue(r, current)}

\* The FOR loop over the rows still to visit (taken here in the order of their
\* ids): INSERT, UPDATE, count. An INSERT the store refuses raises.
RECURSIVE ScanLoop(_, _, _, _, _, _)
ScanLoop(pending, rows, txs, processed_count, id, current) ==
  IF pending = {}
  THEN [error |-> FALSE, count |-> processed_count, rows |-> rows, txs |-> txs]
  ELSE LET rec == CHOOSE r \in pending : \A q \in pending : r.id <= q.id
       IN  IF ~DecimalFits(rec.amount)
           THEN [error |-> TRUE, count |-> processed_count, rows |-> rows, txs |-> txs]
           ELSE ScanLoop(pending \ {rec},
                         {IF r.id = rec.id THEN AdvancedRow(rec, current) ELSE r : r \in rows},
                         txs \cup {MaterializedRow(rec, id)},
                         processed_count + 1, id + 1, current)

\* A plausible slip: the count of all templates, not of those processed.
process_recurring_transactions_CountsAll(rows, txs, current, firstId) ==
  LET due == DueRows(rows, current)
      out == ScanLoop(due, rows, txs, 0, firstId, current)
  IN  IF out.error
      THEN [error |-> TRUE, count |-> 0, rows |-> rows, txs |-> txs, ids |-> {}]
      ELSE [error |-> FALSE, count |-> Cardinality(rows), rows |-> out.rows,
            txs |-> out.txs, ids |-> {r.id : r \in due}]

\* public.process_recurring_transactions(): one statement, hence one store
\* transaction; when the loop raises, everything it wrote is rolled back.
process_recurring_transactions(rows, txs, current, firstId) ==
  LET due == DueRows(rows, current)
      out == ScanLoop(due, rows, txs, 0, firstId, current)
  IN  IF out.error
      THEN [error |-> TRUE, count |-> 0, rows |-> rows, txs |-> txs, ids |-> {}]
      ELSE [error |-> FALSE, count |-> out.count, rows |-> out.rows,
            txs |-> out.txs, ids |-> {r.id : r \in due}]

\* Row-level security: SELECT ... USING (auth.uid() = user_id).
Visible(rows, uid) == {r \in rows : r.user_id = uid}

-----------------------------------------------------------------------------
(* The client: rows as the hook holds them.                                *)

ToClientRecurring(r) ==
  [id |-> r.id, name |-> r.name, type |-> r.type, amount |-> r.amount,
   category |-> r.category, description |-> r.description,
   frequency |-> r.frequency, frequencyValue |-> r.frequency_value,
   startDate |-> r.start_date, endDate |-> r.end_date,
   nextOccurrence |-> r.next_occurrence, isActive |-> r.is_active]

ToClientTransaction(t) ==
  [id |-> t.id, type |-> t.type, amount |-> t.amount, category |-> t.category,
   description |-> t.description, date |-> t.date]

\* .order('created_at', { ascending: false })
RECURSIVE NewestFirst(_)
NewestFirst(rows) ==
  IF rows = {} THEN <<>>
  ELSE LET top == CHOOSE r \in rows : \A q \in rows : q.id <= r.id
       IN  <<ToClientRecurring(top)>> \o NewestFirst(rows \ {top})

\* .order('date', { ascending: false }); rows of one date in insertion order.
RECURSIVE ByDateDesc(_)
ByDateDesc(rows) ==
  IF rows = {} THEN <<>>
  ELSE LET top == CHOOSE r \in rows : \A q \in rows :
                     q.date < r.date \/ (q.date = r.date /\ r.id <= q.id)
       IN  <<ToClientTransaction(top)>> \o ByDateDesc(rows \ {top})


-----------------------------------------------------------------------------
(* Inputs of the session.                                                  *)

StartDates == {20250726, 20250801}
EndDates == {NULL_DATE, 20250727}
Intervals == {1, 2}

\* The fields of the page's form at submission; amount and frequencyValue as
\* parseFloat / parseInt read them (0 also stands for a blank or unreadable field).
BaseForm ==
  [name |-> "Gym", type |-> "expense", amount |-> Amt(50, 0),
   category |-> "Healthcare", description |-> "", frequency |-> "daily",
   frequencyValue |-> 1, startDate |-> 20250726, endDate |-> NULL_DATE]

\* Submissions that differ in the schedule, submissions that differ in what is
\* copied to the transaction, and submissions the page rejects.
ScheduleForms ==
  {[BaseForm EXCEPT !.frequency = f, !.frequencyValue = n, !.startDate = st] :
     f \in {"daily", "monthly"}, n \in Intervals, st \in StartDates}
  \cup {[BaseForm EXCEPT !.frequencyValue = n, !.endDate = e] :
          n \in Intervals, e \in EndDates}
  \cup {[BaseForm EXCEPT !.frequency = f] : f \in Frequencies}

PayloadForms ==
  { [BaseForm EXCEPT !.type = "income", !.amount = Amt(15, 995), !.description = "memo"],
    [BaseForm EXCEPT !.amount = Amt(Decimal10_2Limit, 0)] }

RejectedForms ==
  { [BaseForm EXCEPT !.name = ""], [BaseForm EXCEPT !.amount = Amt(0, 0)],
    [BaseForm EXCEPT !.frequencyValue = 0] }

Forms == ScheduleForms \cup PayloadForms \cup RejectedForms

\* Arguments the hook accepts and the page never passes: no description, and
\* an interval of zero.
HookOnlyInputs ==
  { [BaseForm EXCEPT !.description = NULL], [BaseForm EXCEPT !.frequencyValue = 0] }

HookOnlyUpdates == { [frequencyValue |-> 0] }

-----------------------------------------------------------------------------
(* Hook operations (useBudgetData).                                        *)

\* addRecurringTransaction. rpcOk: whether the calculate_next_occurrence call
\* returned a date (its error is not looked at; the start date is used instead).
addRecurringTransaction(rt, rpcOk) ==
  LET nextOccurrence ==
        IF rpcOk
        THEN calculate_next_occurrence(rt.startDate, rt.frequency, rt.frequencyValue)
        ELSE NULL_DATE
      row == [id |-> nextId, user_id |-> CurrentUser, name |-> rt.name,
              type |-> rt.type, amount |-> rt.amount, category |-> rt.category,
              description |-> rt.description, frequency |-> rt.frequency,
              frequency_value |-> rt.frequencyValue, start_date |-> rt.startDate,
              end_date |-> rt.endDate,
              next_occurrence |-> IF nextOccurrence # NULL_DATE THEN nextOccurrence
                                  ELSE rt.startDate,
              is_active |-> TRUE]
  IN  /\ db_recurring' = db_recurring \cup {row}
      /\ nextId' = nextId + 1
      /\ recurringTransactions' = <<ToClientRecurring(row)>> \o recurringTransactions
      /\ occurrences' = occurrences @@ (row.id :> <<>>)
      /\ lastScan' = NoScan
      /\ UNCHANGED <<today, db_transactions, transactions, calc, budgetVars, categoryVars, otherVars>>

\* The UPDATE built from the fields of updates that are not undefined.
PatchRow(row, updates) ==
  LET has(k) == k \in DOMAIN updates
  IN  [row EXCEPT
        !.name = IF has("name") THEN updates.name ELSE @,
        !.type = IF has("type") THEN updates.type ELSE @,
        !.amount = IF has("amount") THEN updates.amount ELSE @,
        !.category = IF has("category") THEN updates.category ELSE @,
        !.description = IF has("description") THEN updates.description ELSE @,
        !.frequency = IF has("frequency") THEN updates.frequency ELSE @,
        !.frequency_value = IF has("frequencyValue") THEN updates.frequencyValue ELSE @,
        !.start_date = IF has("startDate") THEN updates.startDate ELSE @,
        !.end_date = IF has("endDate") /\ updates.endDate # NULL_DATE
                     THEN updates.endDate ELSE @,
        !.is_active = IF has("isActive") THEN updates.isActive ELSE @]

\* { ...rt, ...updates }: every key of updates overrides, an undefined value too.
Spread(rt, updates) ==
  [k \in DOMAIN rt |-> IF k \in DOMAIN updates THEN updates[k] ELSE rt[k]]

\* updateRecurringTransaction: .update(updateData).eq('id', id) under row-level
\* security, then the same change on the hook's list.
updateRecurringTransaction(id, updates) ==
  /\ db_recurring' =
       {IF r.id = id /\ r.user_id = CurrentUser THEN PatchRow(r, updates) ELSE r
          : r \in db_recurring}
  /\ recurringTransactions' =
       [i \in DOMAIN recurringTransactions |->
          IF recurringTransactions[i].id = id
          THEN Spread(recurringTransactions[i], updates)
          ELSE recurringTransactions[i]]
  /\ lastScan' = NoScan
  /\ UNCHANGED <<today, db_transactions, nextId, transactions, occurrences, calc, budgetVars, categoryVars, otherVars>>

\* deleteRecurringTransaction
deleteRecurringTransaction(id) ==
  /\ db_recurring' = {r \in db_recurring : ~(r.id = id /\ r.user_id = CurrentUser)}
  /\ recurringTransactions' =
       SelectSeq(recurringTransactions, LAMBDA rt : rt.id # id)
  /\ lastScan' = NoScan
  /\ UNCHANGED <<today, db_transactions, nextId, transactions, occurrences, calc, budgetVars, categoryVars, otherVars>>

\* History: the date and interval of each materialization, per template.
Recorded(rows, ids) ==
  [id \in DOMAIN occurrences |->
     IF id \in ids
     THEN LET r == CHOOSE q \in rows : q.id = id
          IN  Append(occurrences[id],
                     [date |-> r.next_occurrence, interval |-> r.frequency_value])
     ELSE occurrences[id]]

\* processRecurringTransactions called by handleProcessNow: the rpc, then both
\* lists are read again; an rpc error is thrown and shown by the page.
HandleProcessNowUpTo(cap) ==
  /\ \E i \in DOMAIN recurringTransactions : recurringTransactions[i].isActive
  /\ Cardinality(db_transactions) + Cardinality(DueRows(db_recurring, today))
       <= cap
  /\ \E out \in {process_recurring_transactions(db_recurring, db_transactions,
                                                 today, nextId)} :
         IF out.error
         THEN /\ lastScan' = [NoScan EXCEPT !.error = TRUE]
              /\ UNCHANGED <<db_recurring, db_transactions, nextId,
                             recurringTransactions, transactions, occurrences>>
         ELSE /\ db_recurring' = out.rows
              /\ db_transactions' = out.txs
              /\ nextId' = nextId + out.count
              /\ transactions' = ByDateDesc(Visible(out.txs, CurrentUser))
              /\ recurringTransactions' = NewestFirst(Visible(out.rows, CurrentUser))
              /\ occurrences' = Recorded(db_recurring, out.ids)
                      /\ lastScan' = [n |-> IF lastScan.n = 0 THEN 1 ELSE 2,
                              ids |-> out.ids, count |-> out.count,
                              error |-> FALSE]
  /\ lastOp' = NoOp
  /\ UNCHANGED <<today, calc, db_budgets, budgets, inflight, categoryVars, otherVars>>

\* RecurringTransactions.handleProcessNow
HandleProcessNow == HandleProcessNowUpTo(MaxTransactions)

\* Cap on the rows of public.transactions while a template catches up.
MaxCatchUp == 10

\* RecurringTransactions.handleProcessNow, pressed until nothing is due
ProcessNowCatchUp == HandleProcessNowUpTo(MaxCatchUp)

-----------------------------------------------------------------------------
(* The Recurring Transactions page.                                        *)

FormRejected(form) ==
  \/ form.name = "" \/ form.amount = Amt(0, 0) \/ form.category = ""
  \/ form.amount.whole < 0
  \/ form.frequencyValue <= 0

\* A rejected submission shows an error toast and calls nothing.
ShowError == UNCHANGED vars

\* The session creates one template.
NoneCreated == DOMAIN occurrences = {r.id : r \in SeedTemplates}

\* handleSubmit with no template being edited.
HandleSubmitAdd ==
  /\ NoneCreated
  /\ \E form \in Forms, rpcOk \in BOOLEAN :
       IF FormRejected(form) THEN ShowError
       ELSE addRecurringTransaction(form, rpcOk)

\* handleSubmit while editing rt.
HandleSubmitEdit ==
  \E i \in DOMAIN recurringTransactions :
    \E form \in Forms :
      IF FormRejected(form) THEN ShowError
      ELSE updateRecurringTransaction(recurringTransactions[i].id, form)

HandleToggleActive ==
  \E i \in DOMAIN recurringTransactions :
    updateRecurringTransaction(recurringTransactions[i].id,
                               [isActive |-> ~recurringTransactions[i].isActive])

HandleDelete ==
  \E i \in DOMAIN recurringTransactions :
    deleteRecurringTransaction(recurringTransactions[i].id)

\* The hook called with arguments the page's validation would have stopped.
AddRecurringTransactionCall ==
  /\ NoneCreated
  /\ \E rt \in HookOnlyInputs, rpcOk \in BOOLEAN : addRecurringTransaction(rt, rpcOk)

UpdateRecurringTransactionCall ==
  \E i \in DOMAIN recurringTransactions, updates \in HookOnlyUpdates :
    updateRecurringTransaction(recurringTransactions[i].id, updates)

\* Midnight passes.
AdvanceDay ==
  /\ today < AddDays(FirstDay, MaxDays)
  /\ today' = NextDay(today)
  /\ lastScan' = NoScan
  /\ UNCHANGED <<db_recurring, db_transactions, nextId, recurringTransactions,
                 transactions, occurrences, calc, budgetVars, categoryVars, otherVars>>

-----------------------------------------------------------------------------
(* Transactions and budgets (useBudgetData, AddTransaction, Transactions   *)
(* and Budgets pages).                                                     *)

\* Cap on the rows of public.budgets.
MaxBudgets == 2
\* Cap on the ids handed out in a run with deletions.
MaxIds == 6

\* What the AddTransaction form can submit: an amount in cents, not negative
\* (min="0" step="0.01"), a category name, a description.
TransactionInputs ==
  { [type |-> "expense", amount |-> a, category |-> c, description |-> "x",
     date |-> FirstDay] : a \in {Amt(50, 0), Amt(20, 0)},
                          c \in {"Healthcare", "healthcare"} }
    \cup { [type |-> "income", amount |-> Amt(50, 0), category |-> "Healthcare",
            description |-> "x", date |-> FirstDay] }

\* A submission the form's own check stops.
BlankTransactionInput ==
  [type |-> "expense", amount |-> Amt(50, 0), category |-> "",
   description |-> "x", date |-> FirstDay]

BudgetInputs ==
  { [category |-> c, limit |-> Amt(100, 0), period |-> "monthly"]
      : c \in {"Healthcare", "healthcare", ""} }

\* budgets.find(b => b.category === category): index of the first match, 0 for
\* undefined.
FirstIndex(bs, category) ==
  IF \E i \in DOMAIN bs : bs[i].category = category
  THEN CHOOSE i \in DOMAIN bs :
         /\ bs[i].category = category
         /\ \A j \in 1..(i - 1) : bs[j].category # category
  ELSE 0

\* A plausible slip: the amount replaces the running total.
NewSpentOnAdd_Overwrite(currentBudget, transaction) == transaction.amount

\* currentBudget.spent + transaction.amount
NewSpentOnAdd(currentBudget, transaction) ==
  AmtAdd(currentBudget.spent, transaction.amount)

\* A plausible slip: no floor at zero.
NewSpentOnDelete_NoFloor(currentBudget, transaction) ==
  AmtSub(currentBudget.spent, transaction.amount)

\* A plausible slip: a deletion clears the running total.
NewSpentOnDelete_Reset(currentBudget, transaction) == Amt(0, 0)

\* Math.max(0, currentBudget.spent - transaction.amount)
NewSpentOnDelete(currentBudget, transaction) ==
  AmtMax0(AmtSub(currentBudget.spent, transaction.amount))

\* .from('budgets').update({ spent }).eq('user_id', uid).eq('category', c):
\* every row of the user in that category; the result is not looked at, so a
\* value DECIMAL(10,2) refuses leaves the rows as they were.
StoreSpent(rows, uid, category, newSpent) ==
  IF ~DecimalFits(newSpent) THEN rows
  ELSE {IF r.user_id = uid /\ r.category = category
        THEN [r EXCEPT !.spent = DecimalRound(newSpent)] ELSE r : r \in rows}

\* setBudgets(prev => prev.map(b => b.category === c ? { ...b, spent } : b))
SetSpent(bs, category, newSpent) ==
  [i \in DOMAIN bs |->
     IF bs[i].category = category THEN [bs[i] EXCEPT !.spent = newSpent]
     ELSE bs[i]]

ToClientBudget(b) ==
  [id |-> b.id, category |-> b.category, limit |-> b.limit_amount,
   spent |-> b.spent, period |-> b.period]

\* The row addTransaction inserts.
TransactionRow(transaction, id) ==
  [id |-> id, user_id |-> CurrentUser, type |-> transaction.type,
   amount |-> DecimalRound(transaction.amount), category |-> transaction.category,
   description |-> transaction.description, date |-> transaction.date]

\* addTransaction up to setTransactions: the insert and the new list.
addTransactionInsert(transaction) ==
  LET row == TransactionRow(transaction, nextId)
  IN  /\ db_transactions' = db_transactions \cup {row}
      /\ nextId' = nextId + 1
      /\ transactions' = <<ToClientTransaction(row)>> \o transactions

\* addTransaction from "if (transaction.type === 'expense')" on; seen is the
\* budgets value of the render the call was made in.
addTransactionBudget(transaction, seen) ==
  LET i == FirstIndex(seen, transaction.category)
  IN  IF transaction.type = "expense" /\ i # 0
      THEN LET newSpent == NewSpentOnAdd(seen[i], transaction)
           IN  /\ db_budgets' = StoreSpent(db_budgets, CurrentUser,
                                           transaction.category, newSpent)
               /\ budgets' = SetSpent(budgets, transaction.category, newSpent)
      ELSE UNCHANGED <<db_budgets, budgets>>

\* addTransaction run to its end before anything else happens. An insert the
\* store refuses is thrown and shown; nothing is changed.
addTransaction(transaction) ==
  IF ~DecimalFits(transaction.amount)
  THEN UNCHANGED <<db_transactions, nextId, transactions, db_budgets, budgets>>
  ELSE /\ addTransactionInsert(transaction)
       /\ addTransactionBudget(transaction, budgets)

\* deleteTransaction
deleteTransaction(id) ==
  IF ~\E k \in DOMAIN transactions : transactions[k].id = id
  THEN UNCHANGED <<db_transactions, transactions, db_budgets, budgets>>
  ELSE LET transaction ==
             transactions[CHOOSE k \in DOMAIN transactions : transactions[k].id = id]
           i == FirstIndex(budgets, transaction.category)
       IN  /\ db_transactions' =
                {t \in db_transactions : ~(t.id = id /\ t.user_id = CurrentUser)}
           /\ transactions' = SelectSeq(transactions, LAMBDA t : t.id # id)
           /\ IF transaction.type = "expense" /\ i # 0
              THEN LET newSpent == NewSpentOnDelete(budgets[i], transaction)
                   IN  /\ db_budgets' = StoreSpent(db_budgets, CurrentUser,
                                                   transaction.category, newSpent)
                       /\ budgets' = SetSpent(budgets, transaction.category, newSpent)
              ELSE UNCHANGED <<db_budgets, budgets>>

\* transactions.filter(expense of the category).reduce((sum, t) => sum + t.amount, 0)
RECURSIVE SpentSoFar(_, _)
SpentSoFar(txs, category) ==
  IF txs = <<>> THEN Amt(0, 0)
  ELSE LET t == Head(txs)
           rest == SpentSoFar(Tail(txs), category)
       IN  IF t.type = "expense" /\ t.category = category
           THEN AmtAdd(rest, t.amount) ELSE rest

\* A plausible slip: a new budget starts at zero.
InitialSpent_Zero(txs, category) == Amt(0, 0)

InitialSpent(txs, category) == SpentSoFar(txs, category)

\* addBudget
addBudget(budget) ==
  LET spent == InitialSpent(transactions, budget.category)
      row == [id |-> nextId, user_id |-> CurrentUser, category |-> budget.category,
              limit_amount |-> DecimalRound(budget.limit),
              spent |-> DecimalRound(spent), period |-> budget.period]
  IN  IF ~DecimalFits(budget.limit) \/ ~DecimalFits(spent)
      THEN UNCHANGED <<db_budgets, budgets, nextId>>
      ELSE /\ db_budgets' = db_budgets \cup {row}
           /\ budgets' = <<ToClientBudget(row)>> \o budgets
           /\ nextId' = nextId + 1

\* History record of a change: what it was and the state it started from.
Before(op, id, type, category, amount) ==
  [op |-> op, id |-> id, type |-> type, category |-> category, amount |-> amount,
   budgets |-> budgets, db_budgets |-> db_budgets, transactions |-> transactions,
   db_transactions |-> db_transactions]

\* No submission yet.
NoNotices == [failed |-> FALSE, toasts |-> <<>>, returned |-> NULL]

\* What a submission shows and gets back. handleSubmit calls addTransaction
\* without await and shows "Success" at once; addTransaction catches what the
\* store throws and shows its own toast, so its promise always resolves.
AddTransactionNotices(transaction) ==
  [failed   |-> ~DecimalFits(transaction.amount),
   toasts   |-> <<"Success">> \o
                (IF ~DecimalFits(transaction.amount)
                 THEN <<"Error adding transaction">>
                 ELSE <<"Transaction added">>),
   returned |-> "resolved"]

\* AddTransaction.handleSubmit for the values the form can hold
AddTransactionSubmitOf(forms) ==
  /\ nextId <= MaxIds
  /\ Cardinality(db_transactions) < MaxTransactions
  /\ \E form \in forms :
       IF form.category = "" \/ form.description = ""
       THEN UNCHANGED vars
       ELSE /\ addTransaction(form)
            /\ notices' = AddTransactionNotices(form)
            /\ lastOp' = Before("added", nextId, form.type, form.category,
                                 form.amount)
            /\ lastScan' = NoScan
            /\ UNCHANGED <<today, db_recurring, recurringTransactions, occurrences,
                           calc, inflight, categoryVars, pageVars>>

\* AddTransaction.handleSubmit
AddTransactionSubmit ==
  AddTransactionSubmitOf(TransactionInputs \cup {BlankTransactionInput})

\* Amounts near the limit of DECIMAL(10,2): the amount field has no max.
LargeTransactionInputs ==
  { [type |-> "expense", amount |-> a, category |-> "Healthcare",
     description |-> "x", date |-> FirstDay]
      : a \in {Amt(50, 0), Amt(60000000, 0), Amt(Decimal10_2Limit, 0)} }

\* AddTransaction.handleSubmit with a large amount
AddLargeTransactionSubmit == AddTransactionSubmitOf(LargeTransactionInputs)

\* History of a deletion: "undone" with the state before the addition when
\* the transaction deleted is the one just added, "deleted" with the state
\* before the deletion otherwise.
AfterDelete(transaction) ==
  IF lastOp.op = "added" /\ lastOp.id = transaction.id
  THEN [lastOp EXCEPT !.op = "undone"]
  ELSE Before("deleted", transaction.id, transaction.type, transaction.category,
              transaction.amount)

\* Transactions.handleDeleteTransaction, confirmed: a row of the list.
HandleDeleteTransaction ==
  \E k \in DOMAIN transactions :
    /\ deleteTransaction(transactions[k].id)
    /\ lastOp' = AfterDelete(transactions[k])
    /\ lastScan' = NoScan
    /\ UNCHANGED <<today, db_recurring, nextId, recurringTransactions, occurrences,
                   calc, inflight, categoryVars, otherVars>>

\* deleteTransaction for a transaction that is not in the list any more (the
\* row's button pressed a second time before the list is drawn again).
DeleteTransactionAgain ==
  \E id \in 1..(nextId - 1) :
    /\ ~\E k \in DOMAIN transactions : transactions[k].id = id
    /\ deleteTransaction(id)
    /\ lastOp' = lastOp
    /\ lastScan' = lastScan
    /\ UNCHANGED <<today, db_recurring, nextId, recurringTransactions, occurrences,
                   calc, inflight, categoryVars, otherVars>>

\* Budgets.handleSubmit with no budget being edited.
BudgetSubmit ==
  /\ nextId <= MaxIds
  /\ Len(budgets) < MaxBudgets
  /\ \E form \in BudgetInputs :
       IF form.category = "" \/ FirstIndex(budgets, form.category) # 0
       THEN UNCHANGED vars
       ELSE /\ addBudget(form)
            /\ lastOp' = Before("budgeted", nextId, NULL, form.category, form.limit)
            /\ lastScan' = NoScan
            /\ UNCHANGED <<today, db_recurring, db_transactions, recurringTransactions,
                           transactions, occurrences, calc, inflight, categoryVars, otherVars>>

\* addBudget for a category that has a budget: the page's duplicate check
\* reads the list of the render the form was submitted in, so a submission
\* made before an earlier insert has returned passes it, and nothing in the
\* hook or in the store keeps a second budget of the same category out.
AddBudgetCall ==
  /\ nextId <= MaxIds
  /\ Len(budgets) < MaxBudgets
  /\ \E form \in BudgetInputs :
       /\ form.category # ""
       /\ FirstIndex(budgets, form.category) # 0
       /\ addBudget(form)
       /\ lastOp' = Before("budgeted", nextId, NULL, form.category, form.limit)
       /\ lastScan' = NoScan
       /\ UNCHANGED <<today, db_recurring, db_transactions, recurringTransactions,
                      transactions, occurrences, calc, inflight, categoryVars, otherVars>>

-----------------------------------------------------------------------------
(* Categories (useBudgetData and the Categories page).                     *)

\* Cap on the rows of public.categories.
MaxCategories == 4

\* Rows create_default_categories_for_user() gives the user (two of the ten).
DefaultCategories ==
  { [id |-> 101, user_id |-> CurrentUser, name |-> "Healthcare", type |-> "expense",
     color |-> "#ec4899", icon |-> "Heart", is_default |-> TRUE],
    [id |-> 102, user_id |-> CurrentUser, name |-> "Salary", type |-> "income",
     color |-> "#10b981", icon |-> "Briefcase", is_default |-> TRUE] }

ToClientCategory(c) ==
  [id |-> c.id, name |-> c.name, type |-> c.type, color |-> c.color,
   icon |-> c.icon, isDefault |-> c.is_default]

\* .order('name', { ascending: true }) over the rows of DefaultCategories.
LoadedCategories ==
  LET h == CHOOSE c \in DefaultCategories : c.name = "Healthcare"
      w == CHOOSE c \in DefaultCategories : c.name = "Salary"
  IN  <<ToClientCategory(h), ToClientCategory(w)>>

\* The form of the Categories page at submission.
CategoryForms ==
  { [name |-> n, type |-> t, color |-> "#3b82f6", icon |-> "DollarSign"]
      : n \in {"Pets", "pets", "Salary", ""}, t \in {"expense", "income"} }

\* String.prototype.toLowerCase on the names in use.
toLowerCase(name) ==
  CASE name = "Pets" -> "pets"
    [] name = "Salary" -> "salary"
    [] name = "Healthcare" -> "healthcare"
    [] OTHER -> name

\* addCategory
addCategory(category) ==
  LET row == [id |-> nextId, user_id |-> CurrentUser, name |-> category.name,
              type |-> category.type, color |-> category.color,
              icon |-> category.icon, is_default |-> FALSE]
  IN  /\ db_categories' = db_categories \cup {row}
      /\ nextId' = nextId + 1
      /\ categories' = Append(categories, ToClientCategory(row))

\* USING (auth.uid() = user_id AND is_default = false), the policy of UPDATE
\* and of DELETE: a row it hides is not touched, and that is no error.
CategoryWritable(c, uid) == c.user_id = uid /\ c.is_default = FALSE

\* updateCategory
updateCategory(id, updates) ==
  /\ db_categories' =
       {IF c.id = id /\ CategoryWritable(c, CurrentUser)
        THEN [c EXCEPT !.name = updates.name, !.type = updates.type,
                       !.color = updates.color, !.icon = updates.icon]
        ELSE c : c \in db_categories}
  /\ categories' =
       [i \in DOMAIN categories |->
          IF categories[i].id = id THEN Spread(categories[i], updates)
          ELSE categories[i]]
  /\ UNCHANGED nextId

\* deleteCategory
deleteCategory(id) ==
  /\ db_categories' =
       {c \in db_categories : ~(c.id = id /\ CategoryWritable(c, CurrentUser))}
  /\ categories' = SelectSeq(categories, LAMBDA c : c.id # id)
  /\ UNCHANGED nextId

\* What no operation on categories touches.
CategoryFrame ==
  UNCHANGED <<today, db_recurring, db_transactions, recurringTransactions,
              transactions, lastScan, occurrences, calc, db_budgets, budgets,
              inflight, otherVars>>

\* History record of a change of the categories.
CategoryOp(op, id) == [NoOp EXCEPT !.op = op, !.id = id]

\* The name and type of the form are taken by a category other than editing.
CategoryNameTaken(form, editing) ==
  \E i \in DOMAIN categories :
    /\ toLowerCase(categories[i].name) = toLowerCase(form.name)
    /\ categories[i].type = form.type
    /\ categories[i].id # editing

\* A plausible slip: the buttons are drawn for every category.
EditAndDeleteShown_ForAll(category) == TRUE

\* {!category.isDefault && (...)}: the cards that get an edit and a delete
\* button.
EditAndDeleteShown(category) == ~category.isDefault

\* Categories.handleSubmit with no category being edited.
CategorySubmitAdd ==
  /\ nextId <= MaxIds
  /\ Len(categories) < MaxCategories
  /\ \E form \in CategoryForms :
       IF form.name = "" \/ CategoryNameTaken(form, 0)
       THEN UNCHANGED vars
       ELSE /\ addCategory(form)
            /\ lastOp' = CategoryOp("categoryAdded", nextId)
            /\ CategoryFrame

\* Categories.handleSubmit after handleEdit (the edit button of a card).
CategorySubmitEdit ==
  \E i \in DOMAIN categories, form \in CategoryForms :
    /\ EditAndDeleteShown(categories[i])
    /\ IF form.name = "" \/ CategoryNameTaken(form, categories[i].id)
       THEN UNCHANGED vars
       ELSE /\ updateCategory(categories[i].id, form)
            /\ lastOp' = CategoryOp("categoryUpdated", categories[i].id)
            /\ CategoryFrame

\* Categories.handleDelete (the delete button of a card), confirmed.
CategoryHandleDelete ==
  \E i \in DOMAIN categories :
    /\ EditAndDeleteShown(categories[i])
    /\ IF categories[i].isDefault
       THEN UNCHANGED vars
       ELSE /\ deleteCategory(categories[i].id)
            /\ lastOp' = CategoryOp("categoryDeleted", categories[i].id)
            /\ CategoryFrame

-----------------------------------------------------------------------------
(* Goals (useBudgetData.addGoal, updateGoal and the Goals page).           *)

\* Cap on the rows of public.goals.
MaxGoals == 2
\* Cap on the add-funds actions of a run.
MaxFunds == 3

NoFunds == [id |-> 0, amount |-> Amt(0, 0), currentAmount |-> Amt(0, 0),
            current_amount |-> Amt(0, 0), n |-> 0]

\* What the goal form can submit: amounts in cents, not negative (min="0"
\* step="0.01"); a blank current amount reads as 0.
GoalForms ==
  { [title |-> "Trip", targetAmount |-> t, currentAmount |-> c]
      : t \in {Amt(100, 0), Amt(0, 0)}, c \in {Amt(0, 0), Amt(80, 0), Amt(120, 0)} }
    \cup { [title |-> "", targetAmount |-> Amt(100, 0), currentAmount |-> Amt(0, 0)] }

\* The amounts of the three buttons: 50, 100, and what parseFloat reads from
\* the prompt (a whole amount, a fraction of a cent, a negative amount).
FundAmounts == {Amt(50, 0), Amt(100, 0), Amt(30, 0), Amt(0, 5), Amt(-30, 0)}

\* a < b
AmtLess(a, b) == a.whole < b.whole \/ (a.whole = b.whole /\ a.frac < b.frac)

\* Math.min(a, b)
AmtMin(a, b) == IF AmtLess(b, a) THEN b ELSE a

ToClientGoal(g) ==
  [id |-> g.id, title |-> g.title, targetAmount |-> g.target_amount,
   currentAmount |-> g.current_amount]

\* addGoal
addGoal(goal) ==
  LET row == [id |-> nextId, user_id |-> CurrentUser, title |-> goal.title,
              target_amount |-> DecimalRound(goal.targetAmount),
              current_amount |-> DecimalRound(goal.currentAmount)]
  IN  IF ~DecimalFits(goal.targetAmount) \/ ~DecimalFits(goal.currentAmount)
      THEN UNCHANGED <<db_goals, goals, nextId>>
      ELSE /\ db_goals' = db_goals \cup {row}
           /\ goals' = <<ToClientGoal(row)>> \o goals
           /\ nextId' = nextId + 1

\* updateGoal(id, { currentAmount }): the row is written, then the list; a
\* write the store refuses is thrown and shown, and the list stays.
updateGoal(id, currentAmount) ==
  IF ~DecimalFits(currentAmount) \/ currentAmount.whole <= -Decimal10_2Limit
  THEN UNCHANGED <<db_goals, goals>>
  ELSE /\ db_goals' =
            {IF g.id = id /\ g.user_id = CurrentUser
             THEN [g EXCEPT !.current_amount = DecimalRound(currentAmount)]
             ELSE g : g \in db_goals}
       /\ goals' = [i \in DOMAIN goals |->
                      IF goals[i].id = id
                      THEN [goals[i] EXCEPT !.currentAmount = currentAmount]
                      ELSE goals[i]]

\* A plausible slip: no cap at the target.
FundedAmount_NoCap(goal, amount) == AmtAdd(goal.currentAmount, amount)

\* Math.min(goal.currentAmount + amount, goal.targetAmount)
FundedAmount(goal, amount) ==
  AmtMin(AmtAdd(goal.currentAmount, amount), goal.targetAmount)

\* handleAddFunds
handleAddFunds(goalId, amount) ==
  IF ~\E i \in DOMAIN goals : goals[i].id = goalId
  THEN UNCHANGED <<db_goals, goals>>
  ELSE LET goal == goals[CHOOSE i \in DOMAIN goals : goals[i].id = goalId]
       IN  updateGoal(goalId, FundedAmount(goal, amount))

\* {percentage < 100 && ...} with percentage =
\* Math.min((currentAmount / targetAmount) * 100, 100): the goals that get the
\* add-funds buttons. A target of 0 gives NaN or Infinity for a current
\* amount that is not negative, and -Infinity for a negative one.
AddFundsShown(goal) ==
  IF goal.targetAmount = Amt(0, 0) THEN goal.currentAmount.whole < 0
  ELSE AmtLess(goal.currentAmount, goal.targetAmount)

\* The row of public.goals with the given id.
StoredGoal(id) == CHOOSE g \in db_goals : g.id = id

\* What no operation on goals touches.
GoalFrame ==
  UNCHANGED <<today, db_recurring, db_transactions, recurringTransactions,
              transactions, lastScan, occurrences, calc, budgetVars, categoryVars,
              notices, scanVars, importVars, toastVars, appVars>>

\* Goals.handleSubmit with no goal being edited.
GoalSubmitAdd ==
  /\ Len(goals) < MaxGoals
  /\ \E form \in GoalForms :
       IF form.title = "" THEN UNCHANGED vars
       ELSE addGoal(form) /\ lastFunds' = NoFunds /\ GoalFrame

\* One of the buttons "Add $50", "Add $100", "Custom Amount".
AddFundsClick ==
  /\ lastFunds.n < MaxFunds
  /\ \E i \in DOMAIN goals, amount \in FundAmounts :
       /\ AddFundsShown(goals[i])
       /\ handleAddFunds(goals[i].id, amount)
       /\ lastFunds' = [id |-> goals[i].id, amount |-> amount,
                        currentAmount |-> goals[i].currentAmount,
                        current_amount |-> StoredGoal(goals[i].id).current_amount,
                        n |-> lastFunds.n + 1]
       /\ UNCHANGED nextId
       /\ GoalFrame

-----------------------------------------------------------------------------
(* Two sessions calling process_recurring_transactions.                    *)

\* Sessions that can call the scan: this one and one other.
MaxSessions == 2

NoScanCall == [state |-> "idle", due |-> {}]

\* The call reaches the store: the SELECT of the FOR loop reads the rows due
\* in the snapshot of that moment. Nothing locks them. In this session the
\* button needs an active template and is disabled while a call is running;
\* the other session has its own button.
ScanBegin(c) ==
  /\ scanCalls[c].state = "idle"
  /\ c = 1 => \E i \in DOMAIN recurringTransactions : recurringTransactions[i].isActive
  /\ scanCalls' = [scanCalls EXCEPT ![c] = [state |-> "reading",
                                            due |-> DueRows(db_recurring, today)]]
  /\ UNCHANGED <<today, db_recurring, db_transactions, nextId, recurringTransactions,
                 transactions, lastScan, occurrences, calc, budgetVars, categoryVars,
                 notices, goalVars, importVars, toastVars, appVars>>

\* The loop of the call runs and commits: for each row of its snapshot the
\* INSERT with the snapshot's next_occurrence and the UPDATE that sets
\* next_occurrence to the date after the snapshot's. An UPDATE that finds the
\* row locked by the other call waits for its commit and then writes. This
\* session then reads both lists again.
ScanEnd(c) ==
  /\ scanCalls[c].state = "reading"
  /\ LET due == scanCalls[c].due
         out == ScanLoop(due, db_recurring, db_transactions, 0, nextId, today)
     IN  IF out.error
         THEN UNCHANGED <<db_recurring, db_transactions, nextId,
                          recurringTransactions, transactions, occurrences>>
         ELSE /\ db_recurring' = out.rows
              /\ db_transactions' = out.txs
              /\ nextId' = nextId + out.count
              /\ occurrences' = Recorded(due, {r.id : r \in due})
              /\ IF c = 1
                 THEN /\ transactions' = ByDateDesc(Visible(out.txs, CurrentUser))
                      /\ recurringTransactions' =
                           NewestFirst(Visible(out.rows, CurrentUser))
                 ELSE UNCHANGED <<recurringTransactions, transactions>>
  /\ scanCalls' = [scanCalls EXCEPT ![c] = [state |-> "returned", due |-> {}]]
  /\ lastScan' = NoScan
  /\ lastOp' = NoOp
  /\ UNCHANGED <<today, calc, db_budgets, budgets, inflight, categoryVars,
                 notices, goalVars, importVars, toastVars, appVars>>

-----------------------------------------------------------------------------
(* Import (useBudgetData.importTransactions and the Data page).            *)

\* Cap on the imports of a run.
MaxImports == 2
\* Cap on the records of an imported file.
MaxBatch == 2

\* No import yet.
NoImport == [n |-> 0, imported |-> 0, skipped |-> 0, batch |-> <<>>,
             previous |-> <<>>]

\* Records of an imported file: two expenses, one without a description,
\* one without an amount.
ImportRecords ==
  { [type |-> "expense", amount |-> a, category |-> "Healthcare",
     description |-> "x", date |-> FirstDay] : a \in {Amt(50, 0), Amt(20, 0)} }
    \cup { [type |-> "expense", amount |-> Amt(50, 0), category |-> "Healthcare",
            description |-> NULL, date |-> FirstDay],
           [type |-> "expense", amount |-> Amt(0, 0), category |-> "Healthcare",
            description |-> "x", date |-> FirstDay] }

ImportBatches ==
  UNION { [1..n -> ImportRecords] : n \in 1..MaxBatch }

\* !transaction.type || !transaction.amount || !transaction.category || !transaction.date
MissingRequired(transaction) ==
  \/ transaction.type = NULL \/ transaction.type = ""
  \/ transaction.amount = Amt(0, 0)
  \/ transaction.category = NULL \/ transaction.category = ""
  \/ transaction.date = NULL_DATE

\* transactions.find(t => t.amount === ... && t.date === ... &&
\* t.description === ... && t.category === ...), on the list of the render
\* the import was called in.
IsDuplicate(seen, transaction) ==
  \E k \in DOMAIN seen :
    /\ seen[k].amount = transaction.amount
    /\ seen[k].date = transaction.date
    /\ seen[k].description = transaction.description
    /\ seen[k].category = transaction.category

\* The row the import inserts: description || ''.
ImportedRow(transaction, id) ==
  TransactionRow([transaction EXCEPT !.description =
                    IF transaction.description = NULL THEN ""
                    ELSE transaction.description], id)

\* The for loop of importTransactions over the records still to visit.
RECURSIVE ImportLoop(_, _, _, _, _, _)
ImportLoop(batch, seen, rows, id, imported, skipped) ==
  IF batch = <<>>
  THEN [rows |-> rows, id |-> id, imported |-> imported, skipped |-> skipped]
  ELSE LET transaction == Head(batch)
       IN  IF MissingRequired(transaction) \/ IsDuplicate(seen, transaction)
           THEN ImportLoop(Tail(batch), seen, rows, id, imported, skipped + 1)
           ELSE IF ~DecimalFits(transaction.amount)
           THEN ImportLoop(Tail(batch), seen, rows, id, imported, skipped + 1)
           ELSE ImportLoop(Tail(batch), seen,
                           rows \cup {ImportedRow(transaction, id)}, id + 1,
                           imported + 1, skipped)

\* importTransactions: the loop, then the list is read again when anything
\* was imported.
importTransactions(importedTransactions) ==
  \E out \in {ImportLoop(importedTransactions, transactions, db_transactions,
                         nextId, 0, 0)} :
    /\ db_transactions' = out.rows
    /\ nextId' = out.id
    /\ transactions' = IF out.imported > 0
                       THEN ByDateDesc(Visible(out.rows, CurrentUser))
                       ELSE transactions
    /\ importResults' = [n |-> importResults.n + 1, imported |-> out.imported,
                         skipped |-> out.skipped, batch |-> importedTransactions,
                         previous |-> importResults.batch]

\* Data.handleImport with a file of transactions.
HandleImport ==
  /\ importResults.n < MaxImports
  /\ \E batch \in ImportBatches : importTransactions(batch)
  /\ lastScan' = NoScan
  /\ lastOp' = NoOp
  /\ UNCHANGED <<today, db_recurring, recurringTransactions, occurrences, calc,
                 db_budgets, budgets, inflight, categoryVars, notices, goalVars,
                 scanVars, toastVars, appVars>>

-----------------------------------------------------------------------------
(* Toasts (use-toast).                                                     *)

TOAST_LIMIT == 1

\* Cap on the toasts made in a run (genId).
MaxToasts == 3

ToastTitles == {"Success", "Error", "Import Completed"}

NoAction == [type |-> NULL, id |-> 0, held |-> 0]

\* .slice(0, n)
Slice(seq, n) == SubSeq(seq, 1, IF n < Len(seq) THEN n ELSE Len(seq))

\* A plausible slip: the new toast is added and none is dropped.
AddToast_NoLimit(toasts, toast) == <<toast>> \o toasts

\* [action.toast, ...state.toasts].slice(0, TOAST_LIMIT)
AddToast(toasts, toast) == Slice(<<toast>> \o toasts, TOAST_LIMIT)

\* reducer; toastId 0 stands for undefined.
reducer(state, action) ==
  CASE action.type = "ADD_TOAST" ->
         [state EXCEPT !.toasts = AddToast(state.toasts, action.toast)]
    [] action.type = "UPDATE_TOAST" ->
         [state EXCEPT !.toasts =
            [k \in DOMAIN state.toasts |->
               IF state.toasts[k].id = action.toast.id
               THEN [state.toasts[k] EXCEPT !.title = action.toast.title]
               ELSE state.toasts[k]]]
    [] action.type = "DISMISS_TOAST" ->
         [state EXCEPT !.toasts =
            [k \in DOMAIN state.toasts |->
               IF state.toasts[k].id = action.toastId \/ action.toastId = 0
               THEN [state.toasts[k] EXCEPT !.open = FALSE]
               ELSE state.toasts[k]]]
    [] action.type = "REMOVE_TOAST" ->
         IF action.toastId = 0 THEN [state EXCEPT !.toasts = <<>>]
         ELSE [state EXCEPT !.toasts =
                 SelectSeq(state.toasts, LAMBDA t : t.id # action.toastId)]

\* What no toast action touches.
ToastFrame ==
  UNCHANGED <<today, db_recurring, db_transactions, nextId, recurringTransactions,
              transactions, lastScan, occurrences, calc, budgetVars, categoryVars,
              notices, goalVars, scanVars, importVars, appVars>>

\* dispatch
dispatch(action) ==
  /\ memoryState' = reducer(memoryState, action)
  /\ lastAction' = [type |-> action.type,
                    id |-> IF action.type \in {"ADD_TOAST", "UPDATE_TOAST"}
                           THEN action.toast.id ELSE action.toastId,
                    held |-> Len(memoryState.toasts)]
  /\ ToastFrame

\* toast({ title }): a new id, then ADD_TOAST.
Toast ==
  /\ count < MaxToasts
  /\ \E title \in ToastTitles :
       /\ count' = count + 1
       /\ dispatch([type |-> "ADD_TOAST",
                    toast |-> [id |-> count + 1, title |-> title, open |-> TRUE]])

\* update of a toast made earlier.
UpdateToast ==
  \E id \in 1..count, title \in ToastTitles :
    /\ dispatch([type |-> "UPDATE_TOAST", toast |-> [id |-> id, title |-> title]])
    /\ UNCHANGED count

\* dismiss of a toast made earlier, or of all (useToast().dismiss()).
DismissToast ==
  \E id \in 0..count :
    /\ dispatch([type |-> "DISMISS_TOAST", toastId |-> id])
    /\ UNCHANGED count

\* The timer of addToRemoveQueue, or REMOVE_TOAST without an id.
RemoveToast ==
  \E id \in 0..count :
    /\ dispatch([type |-> "REMOVE_TOAST", toastId |-> id])
    /\ UNCHANGED count

-----------------------------------------------------------------------------
(* The application shell (App).                                            *)

\* Cap on the auth state changes of a run.
MaxAuthChanges == 3

CurrentSession == "session-1"

\* Sessions the auth client can report (a refresh gives a new one).
Sessions == {CurrentSession, "session-2"}

Paths ==
  {"/", "/transactions", "/budgets", "/goals", "/reports", "/categories", "/data",
   "/recurring", "/add-transaction", "/auth", "/nowhere"}

ProtectedPages ==
  {"Dashboard", "Transactions", "Budgets", "Goals", "Reports", "Categories", "Data",
   "RecurringTransactions", "AddTransaction"}

\* The routes of the {session ? ( ... )} branch.
AuthenticatedRoute(p) ==
  CASE p = "/" -> "Dashboard"
    [] p = "/transactions" -> "Transactions"
    [] p = "/budgets" -> "Budgets"
    [] p = "/goals" -> "Goals"
    [] p = "/reports" -> "Reports"
    [] p = "/categories" -> "Categories"
    [] p = "/data" -> "Data"
    [] p = "/recurring" -> "RecurringTransactions"
    [] p = "/add-transaction" -> "AddTransaction"
    [] p = "/auth" -> "Auth"
    [] OTHER -> "NotFound"

\* The routes of the other branch: "/auth" and "*" both give Auth.
UnauthenticatedRoute(p) == "Auth"

\* A plausible slip: the routes of the signed-in user, whatever the session.
Routes_NoGuard(s, p) == AuthenticatedRoute(p)

\* <Routes>{session ? (...) : (...)}</Routes>
Routes(s, p) ==
  IF s # NULL THEN AuthenticatedRoute(p) ELSE UnauthenticatedRoute(p)

\* What App renders.
Rendered == IF loading THEN "Loading" ELSE Routes(session, path)

\* What no step of App touches.
AppFrame ==
  UNCHANGED <<today, db_recurring, db_transactions, nextId, recurringTransactions,
              transactions, lastScan, occurrences, calc, budgetVars, categoryVars,
              notices, goalVars, scanVars, importVars, toastVars>>

\* supabase.auth.getSession().then(...): the session, or none.
GetSessionResolved ==
  /\ loading
  /\ \E s \in Sessions \cup {NULL} : session' = s
  /\ loading' = FALSE
  /\ UNCHANGED <<path, authChanges>>
  /\ AppFrame

\* onAuthStateChange: sign-in, sign-out, refresh, expiry.
AuthStateChange ==
  /\ authChanges < MaxAuthChanges
  /\ \E s \in Sessions \cup {NULL} : session' = s
  /\ authChanges' = authChanges + 1
  /\ UNCHANGED <<loading, path>>
  /\ AppFrame

\* The location changes (a link, navigate(), the address bar).
Navigate ==
  /\ \E p \in Paths : path' = p
  /\ UNCHANGED <<session, loading, authChanges>>
  /\ AppFrame

\* The state the variables of the further pages start in.
OtherInit ==
  /\ db_goals = {}
  /\ goals = <<>>
  /\ lastFunds = NoFunds
  /\ notices = NoNotices
  /\ scanCalls = [c \in 1..MaxSessions |-> NoScanCall]
  /\ importResults = NoImport
  /\ memoryState = [toasts |-> <<>>]
  /\ count = 0
  /\ lastAction = NoAction
  /\ path = "/"
  /\ authChanges = 0

\* The pages of the signed-in user are mounted: the first session check has
\* returned the session.
SignedIn ==
  /\ session = CurrentSession
  /\ loading = FALSE

\* The store after the migrations and the seed, and the hook before any call.
DataInit ==
  /\ today = FirstDay
  /\ db_recurring = SeedTemplates
  /\ db_transactions = {}
  /\ nextId = Cardinality(SeedTemplates) + 1
  /\ recurringTransactions = <<>>
  /\ transactions = <<>>
  /\ lastScan = NoScan
  /\ occurrences = [id \in {r.id : r \in SeedTemplates} |-> <<>>]
  /\ calc = NoCall
  /\ db_budgets = {}
  /\ budgets = <<>>
  /\ inflight = <<>>
  /\ lastOp = NoOp
  /\ db_categories = DefaultCategories
  /\ categories = LoadedCategories

Init ==
  /\ DataInit
  /\ OtherInit
  /\ SignedIn

\* App is mounted: no session yet, the first check is running.
InitApp ==
  /\ DataInit
  /\ OtherInit
  /\ session = NULL
  /\ loading = TRUE

Next ==
  \/ HandleSubmitAdd
  \/ HandleSubmitEdit
  \/ HandleToggleActive
  \/ HandleDelete
  \/ HandleProcessNow
  \/ AddRecurringTransactionCall
  \/ UpdateRecurringTransactionCall
  \/ AdvanceDay

Spec == Init /\ [][Next]_vars

-----------------------------------------------------------------------------
(* A session on the AddTransaction, Transactions and Budgets pages, with a *)
(* recurring expense in a budgeted category and "Process Now".             *)

\* The form of the Recurring Transactions page submitted as BaseForm.
TemplateSubmit ==
  /\ NoneCreated
  /\ addRecurringTransaction(BaseForm, TRUE)

NextBudget ==
  \/ AddTransactionSubmit
  \/ HandleDeleteTransaction
  \/ DeleteTransactionAgain
  \/ BudgetSubmit
  \/ AddBudgetCall
  \/ TemplateSubmit
  \/ HandleProcessNow

SpecBudget == Init /\ [][NextBudget]_vars

-----------------------------------------------------------------------------
(* Two addTransaction calls under way at once: each call holds the budgets *)
(* of the render it was made in and writes when its insert has returned.   *)

\* Calls made in a run.
MaxCalls == 2

\* A plausible repair: the running total is read when it is written.
ClosureBudgets_ReadAtWrite(call) == budgets

\* The budgets value the call's closure holds.
ClosureBudgets(call) == call.seen

\* addTransaction is called; its insert returns.
AddTransactionBegin ==
  /\ Len(inflight) < MaxCalls
  /\ \E form \in TransactionInputs :
       /\ DecimalFits(form.amount)
       /\ addTransactionInsert(form)
       /\ inflight' = Append(inflight, [transaction |-> form, seen |-> budgets,
                                        done |-> FALSE])
  /\ UNCHANGED <<today, db_recurring, recurringTransactions, lastScan, occurrences,
                 calc, db_budgets, budgets, lastOp, categoryVars, otherVars>>

\* The rest of the call: the budget is written in the store and in the list.
AddTransactionEnd ==
  \E k \in DOMAIN inflight :
    /\ ~inflight[k].done
    /\ addTransactionBudget(inflight[k].transaction, ClosureBudgets(inflight[k]))
    /\ inflight' = [inflight EXCEPT ![k].done = TRUE]
    /\ UNCHANGED <<today, db_recurring, db_transactions, nextId,
                   recurringTransactions, transactions, lastScan, occurrences,
                   calc, lastOp, categoryVars, otherVars>>

\* Budgets are made before the calls.
BudgetSubmitFirst ==
  /\ inflight = <<>>
  /\ BudgetSubmit

NextRace ==
  \/ BudgetSubmitFirst
  \/ AddTransactionBegin
  \/ AddTransactionEnd

SpecRace == Init /\ [][NextRace]_vars

-----------------------------------------------------------------------------
(* A session on the Categories page.                                       *)

NextCategories ==
  \/ CategorySubmitAdd
  \/ CategorySubmitEdit
  \/ CategoryHandleDelete

SpecCategories == Init /\ [][NextCategories]_vars

-----------------------------------------------------------------------------
(* A session on the Goals page.                                            *)

NextGoals ==
  \/ GoalSubmitAdd
  \/ AddFundsClick

SpecGoals == Init /\ [][NextGoals]_vars

-----------------------------------------------------------------------------
(* A session with amounts near the limit of the amount columns.            *)

NextLarge ==
  \/ AddLargeTransactionSubmit
  \/ HandleDeleteTransaction
  \/ BudgetSubmit

SpecLarge == Init /\ [][NextLarge]_vars

-----------------------------------------------------------------------------
(* The application shell from the moment it is mounted.                    *)

NextApp ==
  \/ GetSessionResolved
  \/ AuthStateChange
  \/ Navigate

SpecApp == InitApp /\ [][NextApp]_vars

-----------------------------------------------------------------------------
(* Toasts made, updated, dismissed and removed.                            *)

NextToasts ==
  \/ Toast
  \/ UpdateToast
  \/ DismissToast
  \/ RemoveToast

SpecToasts == Init /\ [][NextToasts]_vars

-----------------------------------------------------------------------------
(* Files imported on the Data page.                                        *)

NextImport == HandleImport

SpecImport == Init /\ [][NextImport]_vars

-----------------------------------------------------------------------------
(* Two sessions pressing "Process Now".                                    *)

NextScanRace ==
  \/ HandleSubmitAdd
  \/ \E c \in 1..MaxSessions : ScanBegin(c)
  \/ \E c \in 1..MaxSessions : ScanEnd(c)

SpecScanRace == Init /\ [][NextScanRace]_vars

-----------------------------------------------------------------------------
(* "Process Now" pressed again and again on one day.                       *)

NextCatchUp ==
  \/ HandleSubmitAdd
  \/ ProcessNowCatchUp

\* The button is pressed for as long as pressing it changes anything.
SpecCatchUp == Init /\ [][NextCatchUp]_vars /\ WF_vars(ProcessNowCatchUp)

-----------------------------------------------------------------------------
(* calculate_next_occurrence called on its own (supabase.rpc).             *)

CalcDates ==
  {d \in {MkDate(y, m, dd) : y \in {2024, 2025}, m \in 1..12,
                              dd \in {1, 15, 28, 29, 30, 31}} : IsValidDate(d)}
CalcFrequencies == Frequencies \cup {"fortnightly"}
CalcIntervals == -1..MaxCalcInterval

\* The function has no RAISE: every call returns a date.
CalcReturn ==
  /\ calc.state = "called"
  /\ calc' = [calc EXCEPT !.state = "returned",
                          !.result = calculate_next_occurrence(calc.d, calc.f, calc.n)]
  /\ UNCHANGED <<today, db_recurring, db_transactions, nextId, recurringTransactions,
                 transactions, lastScan, occurrences, budgetVars, categoryVars, otherVars>>

InitCalc ==
  /\ today = FirstDay
  /\ db_recurring = SeedTemplates
  /\ db_transactions = {}
  /\ nextId = Cardinality(SeedTemplates) + 1
  /\ recurringTransactions = <<>>
  /\ transactions = <<>>
  /\ lastScan = NoScan
  /\ occurrences = [id \in {r.id : r \in SeedTemplates} |-> <<>>]
  /\ db_budgets = {}
  /\ budgets = <<>>
  /\ inflight = <<>>
  /\ lastOp = NoOp
  /\ db_categories = DefaultCategories
  /\ categories = LoadedCategories
  /\ OtherInit
  /\ SignedIn
  /\ calc \in {[state |-> "called", d |-> d, f |-> f, n |-> n,
                result |-> NULL_DATE, error |-> NULL] :
                 d \in CalcDates, f \in CalcFrequencies, n \in CalcIntervals}

NextCalc == CalcReturn

SpecCalc == InitCalc /\ [][NextCalc]_vars

-----------------------------------------------------------------------------
(* Vocabulary of the properties.                                           *)

\* Days since 0000-03-01, by the closed formula (no day stepping).
DayNumber(d) ==
  LET y   == IF MonthOf(d) <= 2 THEN YearOf(d) - 1 ELSE YearOf(d)
      era == y \div 400
      yoe == y - era * 400
      mp  == (MonthOf(d) + 9) % 12
      doy == (153 * mp + 2) \div 5 + DayOf(d) - 1
  IN  era * 146097 + yoe * 365 + yoe \div 4 - yoe \div 100 + doy

MonthIndex(d) == YearOf(d) * 12 + MonthOf(d) - 1

Min(a, b) == IF a < b THEN a ELSE b

\* d2 is d1 plus n months, the day kept or cut to the end of the month.
IsMonthsAfter(d2, d1, n) ==
  /\ MonthIndex(d2) = MonthIndex(d1) + n
  /\ DayOf(d2) = Min(DayOf(d1), DaysInMonth(YearOf(d2), MonthOf(d2)))

\* d2 is one cycle (n units of frequency f) after d1.
IsCycleAfter(d2, d1, f, n) ==
  /\ IsValidDate(d2)
  /\ f = "daily"   => DayNumber(d2) = DayNumber(d1) + n
  /\ f = "weekly"  => DayNumber(d2) = DayNumber(d1) + 7 * n
  /\ f = "monthly" => IsMonthsAfter(d2, d1, n)
  /\ f = "yearly"  => IsMonthsAfter(d2, d1, 12 * n) /\ YearOf(d2) = YearOf(d1) + n

\* The selection predicate of the due scan, on the state the scan starts in.
Selected(r) ==
  /\ r.is_active
  /\ r.next_occurrence <= today
  /\ (r.end_date = NULL_DATE \/ r.next_occurrence <= r.end_date)

RowById(rows, id) == CHOOSE r \in rows : r.id = id

\* This step materialized template r: one more recorded occurrence, at r's date.
MaterializedInStep(r) ==
  /\ Len(occurrences'[r.id]) = Len(occurrences[r.id]) + 1
  /\ occurrences'[r.id][Len(occurrences'[r.id])].date = r.next_occurrence

NotMaterializedInStep(r) ==
  r.id \in DOMAIN occurrences' => occurrences'[r.id] = occurrences[r.id]

NewTransactions == db_transactions' \ db_transactions

\* A "Process Now" whose call returned a count.
ScanCompleted == HandleProcessNow /\ ~lastScan'.error

-----------------------------------------------------------------------------
(* Properties.                                                             *)

\* C1: a scan that returns materializes exactly the templates that, at its
\* start, are active with nextOccurrence <= today and (endDate unset or
\* nextOccurrence <= endDate); no step of any kind materializes a template
\* outside that set, so a template past its endDate is never materialized.
C1_SelectionPredicate ==
  [][ /\ \A r \in db_recurring :
           (r.id \in DOMAIN occurrences' /\ occurrences'[r.id] # occurrences[r.id])
             => Selected(r)
      /\ ScanCompleted =>
           /\ \A r \in db_recurring :
                IF Selected(r) THEN MaterializedInStep(r) ELSE NotMaterializedInStep(r)
           /\ Cardinality(NewTransactions)
                = Cardinality({r \in db_recurring : Selected(r)})
    ]_vars

\* A scan has returned, it materialized some template, and it left alone an
\* active, overdue template whose nextOccurrence is after its endDate.
C1_Witness ==
  /\ lastScan.n >= 1
  /\ lastScan.ids # {}
  /\ \E r \in db_recurring :
       /\ r.is_active /\ r.next_occurrence <= today
       /\ r.end_date # NULL_DATE /\ r.next_occurrence > r.end_date
       /\ r.id \notin lastScan.ids
       /\ occurrences[r.id] = <<>>

\* C2: a scan that returns moves each due template one cycle on from its own
\* nextOccurrence, changes nothing else of the row, and inserts exactly one
\* transaction per due template.
C2_OneCyclePerCall ==
  [][ ScanCompleted =>
        /\ \A r \in db_recurring :
             Selected(r) =>
               /\ \E q \in db_recurring' :
                    /\ q = [r EXCEPT !.next_occurrence = q.next_occurrence]
                    /\ IsCycleAfter(q.next_occurrence, r.next_occurrence,
                                    r.frequency, r.frequency_value)
               /\ Len(occurrences'[r.id]) = Len(occurrences[r.id]) + 1
        /\ Cardinality(NewTransactions)
             = Cardinality({r \in db_recurring : Selected(r)})
        /\ Cardinality(db_recurring') = Cardinality(db_recurring)
    ]_vars

\* The two cases of the claim after one scan on 2025-08-01: the daily template
\* that was 5 days overdue is 4 days overdue, and the monthly template that
\* stood at 2025-08-01 stands at 2025-09-01 with one transaction of 2025-08-01.
C2_Witness ==
  /\ today = 20250801
  /\ lastScan.n = 1
  /\ \E r \in db_recurring :
       /\ r.id \in lastScan.ids
       /\ r.frequency = "daily" /\ r.frequency_value = 1
       /\ occurrences[r.id] = <<[date |-> 20250727, interval |-> 1]>>
       /\ r.next_occurrence = 20250728
  /\ \E r \in db_recurring :
       /\ r.id \in lastScan.ids
       /\ r.frequency = "monthly" /\ r.frequency_value = 1
       /\ occurrences[r.id] = <<[date |-> 20250801, interval |-> 1]>>
       /\ r.next_occurrence = 20250901
       /\ Cardinality({t \in db_transactions :
                         t.date = 20250801 /\ t.user_id = r.user_id}) = 1

\* C3 (as claimed): every active template has nextOccurrence >= startDate.
C3_NextNotBeforeStart ==
  \A r \in db_recurring : r.is_active => r.next_occurrence >= r.start_date

\* C4: materializations made with an interval >= 1 strictly increase the
\* date: of two materializations of one template with only such
\* materializations between them the later has the later date, and the
\* template's nextOccurrence is after the date of its latest materialization.
C4_StrictlyAdvances ==
  \A id \in DOMAIN occurrences :
    LET occ == occurrences[id]
        Positive(i, j) == \A k \in i..(j - 1) : occ[k].interval >= 1
    IN  /\ \A i, j \in DOMAIN occ :
             (i < j /\ Positive(i, j)) => occ[i].date < occ[j].date
        /\ \A r \in db_recurring :
             (r.id = id /\ occ # <<>> /\ occ[Len(occ)].interval >= 1)
               => r.next_occurrence > occ[Len(occ)].date

\* A template materialized twice, both times with an interval >= 1.
C4_Witness ==
  \E id \in DOMAIN occurrences :
    /\ Len(occurrences[id]) >= 2
    /\ \A k \in DOMAIN occurrences[id] : occurrences[id][k].interval >= 1

\* C5: for a frequency of the four and an interval n >= 1 the result is a
\* date strictly after d: d plus n days, 7n days, n months or n years.
C5_NextOccurrence ==
  (calc.state = "returned" /\ calc.f \in Frequencies /\ calc.n >= 1)
    => /\ calc.result > calc.d
       /\ IsCycleAfter(calc.result, calc.d, calc.f, calc.n)

\* nextOccurrence(2025-07-01, weekly, 1) = 2025-07-08.
C5_Witness ==
  /\ calc.state = "returned"
  /\ calc.d = 20250701 /\ calc.f = "weekly" /\ calc.n = 1
  /\ calc.result = 20250708

\* C6 (as claimed): every transaction a scan inserts copies type, amount,
\* category and owner of a due template, is dated at that template's
\* nextOccurrence, and carries its description, or its name when it has none.
C6_CopiesTemplate ==
  [][ HandleProcessNow =>
        \A t \in NewTransactions :
          \E r \in db_recurring :
            /\ Selected(r)
            /\ t.user_id = r.user_id /\ t.type = r.type /\ t.category = r.category
            /\ t.amount = r.amount
            /\ t.date = r.next_occurrence
            /\ t.description = IF r.description \in {NULL, ""} THEN r.name
                               ELSE r.description
    ]_vars

\* C7 (as claimed): in a scan, every due template whose own insert is
\* accepted is materialized and advanced, whatever happens to the others.
C7_FailuresIsolated ==
  [][ HandleProcessNow =>
        \A r \in db_recurring :
          (Selected(r) /\ DecimalFits(r.amount))
            => /\ MaterializedInStep(r)
               /\ RowById(db_recurring', r.id).next_occurrence
                    = calculate_next_occurrence(r.next_occurrence, r.frequency,
                                                r.frequency_value)
    ]_vars

C9_InvalidFrequencyRejected ==
  (calc.state = "returned" /\ calc.f \notin Frequencies)
    => (calc.error = "InvalidFrequency" /\ calc.result # calc.d)

\* C10 (as claimed): calculate_next_occurrence rejects an interval of zero
\* or less with InvalidInterval.
C10_NonPositiveIntervalRejected ==
  (calc.state = "returned" /\ calc.n <= 0) => calc.error = "InvalidInterval"

-----------------------------------------------------------------------------
(* Month arithmetic of the calculator.                                     *)

\* The number of months a cycle of frequency f and interval n spans.
MonthsOfCycle(f, n) == IF f = "yearly" THEN 12 * n ELSE n

\* The last day of the month with index i (year * 12 + month - 1).
LastDayOfMonthIndex(i) == DaysInMonth(i \div 12, (i % 12) + 1)

\* C11: a monthly or yearly advance by n >= 1 returns a valid calendar date
\* in the target month: the reference day when that month has it, and the
\* last day of the month when it has not; never a date of a later month.
C11_MonthEndClamp ==
  (calc.state = "returned" /\ calc.f \in {"monthly", "yearly"} /\ calc.n >= 1)
    => LET target == MonthIndex(calc.d) + MonthsOfCycle(calc.f, calc.n)
           last   == LastDayOfMonthIndex(target)
       IN  /\ IsValidDate(calc.result)
           /\ MonthIndex(calc.result) = target
           /\ DayOf(calc.d) <= last => DayOf(calc.result) = DayOf(calc.d)
           /\ DayOf(calc.d) > last  => DayOf(calc.result) = last

\* nextOccurrence(2024-01-31, monthly, 1) = 2024-02-29.
C11_Witness ==
  /\ calc.state = "returned"
  /\ calc.d = 20240131 /\ calc.f = "monthly" /\ calc.n = 1
  /\ calc.result = 20240229

-----------------------------------------------------------------------------
(* Vocabulary of the budget properties.                                    *)

\* An amount in thousandths.
Millis(a) == a.whole * 1000 + a.frac

\* Positions of the budgets of a category, compared character by character.
Matching(bs, category) == {i \in DOMAIN bs : bs[i].category = category}

\* The budget a lookup by category finds: the one at the lowest position.
FirstMatch(bs, category) ==
  CHOOSE i \in Matching(bs, category) : \A j \in Matching(bs, category) : i <= j

\* Sum, in thousandths, of the amounts of a set of rows.
RECURSIVE SumMillis(_)
SumMillis(rows) ==
  IF rows = {} THEN 0
  ELSE LET r == CHOOSE q \in rows : TRUE
       IN  Millis(r.amount) + SumMillis(rows \ {r})

\* The user's expense rows of a category in the store.
ExpensesOf(rows, category) ==
  {t \in rows : t.user_id = CurrentUser /\ t.type = "expense" /\ t.category = category}

\* A step in which addTransaction inserted the form's transaction.
AddedStep(form) ==
  /\ lastOp'.op = "added"
  /\ lastOp'.id = nextId
  /\ db_transactions' = db_transactions \cup {TransactionRow(form, nextId)}

\* A step in which the transaction at position k of the list was deleted.
DeletedStep(k) ==
  /\ lastOp'.op \in {"deleted", "undone"}
  /\ lastOp'.id = transactions[k].id
  /\ Len(transactions') = Len(transactions) - 1

\* A step in which addBudget stored a budget.
BudgetedStep ==
  /\ lastOp'.op = "budgeted"
  /\ Len(budgets') = Len(budgets) + 1

\* Budget i is the same in the list and, by its id, in the store, before and
\* after the step.
SameBudget(i) ==
  /\ budgets'[i] = budgets[i]
  /\ RowById(db_budgets', budgets[i].id) = RowById(db_budgets, budgets[i].id)

\* C12: addTransaction of an expense of amount a raises the spent amount of
\* the budget found for its category (same characters, same case) by exactly
\* a, in the list and in the store, and leaves the budgets of every other
\* category alone; an income, or an expense whose category has no budget,
\* leaves every budget as it was.
C12_AddRaisesSpent ==
  [][\A form \in TransactionInputs :
       AddedStep(form) =>
         IF form.type = "expense" /\ Matching(budgets, form.category) # {}
         THEN LET i == FirstMatch(budgets, form.category)
              IN  /\ Len(budgets') = Len(budgets)
                  /\ Millis(budgets'[i].spent) =
                       Millis(budgets[i].spent) + Millis(form.amount)
                  /\ Millis(RowById(db_budgets', budgets[i].id).spent) =
                       Millis(RowById(db_budgets, budgets[i].id).spent)
                         + Millis(form.amount)
                  /\ \A j \in DOMAIN budgets :
                       budgets[j].category # form.category => SameBudget(j)
         ELSE UNCHANGED <<budgets, db_budgets>>]_vars

\* An expense in "Healthcare" was added while budgets for "Healthcare" and for
\* "healthcare" existed: the first has grown by the amount, the second not.
C12_Witness ==
  /\ lastOp.op = "added" /\ lastOp.type = "expense"
  /\ lastOp.category = "Healthcare"
  /\ Matching(lastOp.budgets, "Healthcare") # {}
  /\ Matching(lastOp.budgets, "healthcare") # {}
  /\ LET i == FirstMatch(lastOp.budgets, "Healthcare")
         j == FirstMatch(lastOp.budgets, "healthcare")
     IN  /\ Millis(lastOp.budgets[i].spent) > 0
         /\ Millis(budgets[i].spent) =
              Millis(lastOp.budgets[i].spent) + Millis(lastOp.amount)
         /\ budgets[j] = lastOp.budgets[j]

\* C13: no budget's spent amount is ever negative, in the list or in the
\* store; deleting an expense lowers the spent amount of the budget found for
\* its category by the amount, but not below zero; and deleteTransaction for
\* a transaction that is not in the list changes no transaction and no
\* budget.
C13_SpentNeverNegative ==
  /\ [](/\ \A i \in DOMAIN budgets : budgets[i].spent.whole >= 0
        /\ \A b \in db_budgets : b.spent.whole >= 0)
  /\ [][\A k \in DOMAIN transactions :
          (DeletedStep(k) /\ transactions[k].type = "expense"
             /\ Matching(budgets, transactions[k].category) # {})
            => LET i == FirstMatch(budgets, transactions[k].category)
                   left == Millis(budgets[i].spent) - Millis(transactions[k].amount)
               IN  Millis(budgets'[i].spent) = IF left < 0 THEN 0 ELSE left]_vars
  /\ [][DeleteTransactionAgain =>
          UNCHANGED <<db_transactions, transactions, db_budgets, budgets>>]_vars

\* An expense larger than the spent amount of its budget was deleted (a
\* transaction "Process Now" had made), and the budget stands at zero.
C13_Witness ==
  /\ lastOp.op = "deleted" /\ lastOp.type = "expense"
  /\ Matching(lastOp.budgets, lastOp.category) # {}
  /\ LET i == FirstMatch(lastOp.budgets, lastOp.category)
     IN  /\ Millis(lastOp.budgets[i].spent) < Millis(lastOp.amount)
         /\ Millis(budgets[i].spent) = 0
         /\ Millis(RowById(db_budgets, budgets[i].id).spent) = 0

\* C14: when the transaction just added is deleted, the budget found for its
\* category has the spent amount it had before the addition, in the list
\* and in the store, and the transactions are those there were before; and
\* no step changes a transaction that stays, in the store or in the list.
C14_AddThenDelete ==
  /\ [](lastOp.op = "undone" =>
          /\ transactions = lastOp.transactions
          /\ db_transactions = lastOp.db_transactions
          /\ Matching(lastOp.budgets, lastOp.category) # {} =>
               LET i == FirstMatch(lastOp.budgets, lastOp.category)
               IN  /\ budgets[i].spent = lastOp.budgets[i].spent
                   /\ RowById(db_budgets, budgets[i].id).spent =
                        RowById(lastOp.db_budgets, budgets[i].id).spent)
  /\ [][/\ \A t \in db_transactions :
             (\E u \in db_transactions' : u.id = t.id) => t \in db_transactions'
        /\ \A k \in DOMAIN transactions :
             \A m \in DOMAIN transactions' :
               transactions'[m].id = transactions[k].id
                 => transactions'[m] = transactions[k]]_vars

\* An expense was added to a budget that stood above zero and deleted again.
C14_Witness ==
  /\ lastOp.op = "undone" /\ lastOp.type = "expense"
  /\ Matching(lastOp.budgets, lastOp.category) # {}
  /\ Millis(budgets[FirstMatch(lastOp.budgets, lastOp.category)].spent) > 0
  /\ Len(transactions) > 0

\* C15 (as claimed): when an expense is added or deleted and several budgets
\* have its category, the budgets of that category other than the first keep
\* their spent amount, in the list and in the store.
C15_OnlyFirstMatchChanges ==
  [][/\ \A form \in TransactionInputs :
          (AddedStep(form) /\ form.type = "expense")
            => \A j \in Matching(budgets, form.category) :
                 j # FirstMatch(budgets, form.category) => SameBudget(j)
     /\ \A k \in DOMAIN transactions :
          (DeletedStep(k) /\ transactions[k].type = "expense")
            => \A j \in Matching(budgets, transactions[k].category) :
                 j # FirstMatch(budgets, transactions[k].category)
                   => SameBudget(j)]_vars

\* C16: the budget addBudget stores for category c starts with a spent
\* amount equal to the sum of the user's expense transactions of category c
\* (zero when there are none), in the list and in the store; the budgets there
\* were and the transactions are not changed.
C16_InitialSpent ==
  [][BudgetedStep =>
       LET new == Head(budgets')
           sum == SumMillis(ExpensesOf(db_transactions, new.category))
       IN  /\ new.category = lastOp'.category
           /\ Millis(new.spent) = sum
           /\ Millis(RowById(db_budgets', new.id).spent) = sum
           /\ Tail(budgets') = budgets
           /\ db_budgets' = db_budgets \cup {RowById(db_budgets', new.id)}
           /\ UNCHANGED <<transactions, db_transactions>>]_vars

\* A budget for "Healthcare" was added when expenses of 50 and of 20 in that
\* category, and another transaction, were there: it starts at 70.
C16_Witness ==
  /\ lastOp.op = "budgeted" /\ lastOp.category = "Healthcare"
  /\ Len(transactions) = 3
  /\ Cardinality(ExpensesOf(db_transactions, "Healthcare")) = 2
  /\ Millis(Head(budgets).spent) = 70000
  /\ transactions = lastOp.transactions

\* C17 (as claimed): when a scan has made an expense transaction of the user
\* in a category the user has a budget for, the spent amount of that budget,
\* as the store gives it to the next read, has grown by the amount.
C17_ScanReachesBudget ==
  [][ScanCompleted =>
       \A t \in NewTransactions :
         (t.user_id = CurrentUser /\ t.type = "expense")
           => \A b \in db_budgets :
                (b.user_id = CurrentUser /\ b.category = t.category)
                  => Millis(RowById(db_budgets', b.id).spent)
                       >= Millis(b.spent) + Millis(t.amount)]_vars

\* Two calls that have both finished, for expenses of one category, the
\* second made before the first had written the budget: both closures hold
\* the same budgets, with a budget for the category.
BothReadBeforeEitherWrote ==
  /\ Len(inflight) = 2
  /\ inflight[1].done /\ inflight[2].done
  /\ inflight[1].transaction.type = "expense"
  /\ inflight[2].transaction.type = "expense"
  /\ inflight[1].transaction.category = inflight[2].transaction.category
  /\ inflight[1].seen = inflight[2].seen
  /\ Matching(inflight[1].seen, inflight[1].transaction.category) # {}

\* C18: two addTransaction calls for expenses of the same budgeted category,
\* the second made before the first has written the budget, leave the spent
\* amount grown by one of the two amounts only (the amount of the call that
\* wrote last), in the list and in the store.
C18_LostUpdate ==
  BothReadBeforeEitherWrote =>
    LET c  == inflight[1].transaction.category
        i  == FirstMatch(inflight[1].seen, c)
        s0 == Millis(inflight[1].seen[i].spent)
        a1 == Millis(inflight[1].transaction.amount)
        a2 == Millis(inflight[2].transaction.amount)
    IN  /\ Millis(budgets[i].spent) \in {s0 + a1, s0 + a2}
        /\ Millis(budgets[i].spent) < s0 + a1 + a2
        /\ Millis(RowById(db_budgets, budgets[i].id).spent) = Millis(budgets[i].spent)
        /\ Cardinality(ExpensesOf(db_transactions, c)) = 2

\* Expenses of 50 and of 20 in "Healthcare" were both stored, and the budget
\* of "Healthcare", at 0 before, stands at 20 or at 50, not at 70.
C18_Witness ==
  /\ BothReadBeforeEitherWrote
  /\ inflight[1].transaction.category = "Healthcare"
  /\ Millis(inflight[1].transaction.amount) = 50000
  /\ Millis(inflight[2].transaction.amount) = 20000
  /\ SumMillis(ExpensesOf(db_transactions, "Healthcare")) = 70000
  /\ Millis(budgets[FirstMatch(budgets, "Healthcare")].spent) < 70000

-----------------------------------------------------------------------------
(* Categories and ownership.                                               *)

C20_OwnRowsOnly ==
  [][/\ {r \in db_recurring' : r.user_id # CurrentUser}
          = {r \in db_recurring : r.user_id # CurrentUser}
     /\ {t \in db_transactions' : t.user_id # CurrentUser}
          = {t \in db_transactions : t.user_id # CurrentUser}]_vars

-----------------------------------------------------------------------------
(* Goals.                                                                  *)

\* The goal of the list with the given id.
GoalById(id) == goals[CHOOSE i \in DOMAIN goals : goals[i].id = id]

-----------------------------------------------------------------------------
(* Errors and what the caller sees.                                        *)

\* C22: an operation whose store call failed gives its caller an error
\* result, and the user is not told it succeeded.
C22_ErrorsReachCaller ==
  notices.failed =>
    /\ notices.returned = "error"
    /\ \A k \in DOMAIN notices.toasts : notices.toasts[k] # "Success"

\* The row of public.budgets with the given id.
StoredBudget(id) == CHOOSE r \in db_budgets : r.id = id

\* C27: when addTransaction or deleteTransaction has finished, whether or not
\* the store took the budget write, every budget of the list shows the spent
\* amount the store holds for it.
C27_ClientSpentIsStoreSpent ==
  lastOp.op \in {"added", "undone", "deleted"} =>
    \A i \in DOMAIN budgets :
      DecimalRound(budgets[i].spent) = StoredBudget(budgets[i].id).spent

-----------------------------------------------------------------------------
(* The count of a scan.                                                    *)

\* Templates whose next_occurrence this step moved.
AdvancedInStep ==
  {r \in db_recurring :
     \E q \in db_recurring' : q.id = r.id /\ q.next_occurrence # r.next_occurrence}

-----------------------------------------------------------------------------
(* One budget per category.                                                *)

\* C24: whatever budgets the form has created, no two budgets of the user
\* have the same category, in the list or in the store.
C24_OneBudgetPerCategory ==
  /\ \A i, j \in DOMAIN budgets :
       budgets[i].category = budgets[j].category => i = j
  /\ \A r, q \in db_budgets :
       (r.user_id = q.user_id /\ r.category = q.category) => r.id = q.id

-----------------------------------------------------------------------------
(* Concurrent scans.                                                       *)

\* C25: whatever calls of the scan overlap, no template is materialized twice
\* for the same date.
C25_MaterializedOnce ==
  \A id \in DOMAIN occurrences :
    \A i, j \in DOMAIN occurrences[id] :
      occurrences[id][i].date = occurrences[id][j].date => i = j

-----------------------------------------------------------------------------
(* Catching up.                                                            *)

\* The user has an active template, so the scan can be called.
CanScan == \E i \in DOMAIN recurringTransactions : recurringTransactions[i].isActive

\* The latest call of the scan returned 0.
ReturnedZero == lastScan.n >= 1 /\ ~lastScan.error /\ lastScan.count = 0

\* C26: on a fixed day, with every template's interval >= 1 and frequency one
\* of the four, calling the scan again and again leads to a call that
\* returns 0, after which no template is due.
C26_CatchesUp ==
  CanScan ~> (ReturnedZero /\ DueRows(db_recurring, today) = {})

-----------------------------------------------------------------------------
(* Import.                                                                 *)

\* Two rows with the same amount, date, description and category.
SameRecord(r, q) ==
  /\ r.amount = q.amount /\ r.date = q.date
  /\ r.description = q.description /\ r.category = q.category

\* C28: an import never leaves two stored transactions with the same amount,
\* date, description and category, and a file imported a second time inserts
\* nothing and counts each of its records as skipped.
C28_NoDuplicateImported ==
  /\ \A r, q \in db_transactions : SameRecord(r, q) => r.id = q.id
  /\ (importResults.n >= 2 /\ importResults.batch = importResults.previous)
       => /\ importResults.imported = 0
          /\ importResults.skipped = Len(importResults.batch)

-----------------------------------------------------------------------------
(* Toasts.                                                                 *)

\* C29: whatever actions were dispatched, the state holds at most TOAST_LIMIT
\* toasts; a toast it holds is the one added last, and right after an
\* ADD_TOAST it holds that toast, open.
C29_OnlyLatestToast ==
  /\ Len(memoryState.toasts) <= TOAST_LIMIT
  /\ \A k \in DOMAIN memoryState.toasts : memoryState.toasts[k].id = count
  /\ lastAction.type = "ADD_TOAST" =>
       /\ Len(memoryState.toasts) = 1
       /\ memoryState.toasts[1].id = lastAction.id
       /\ memoryState.toasts[1].open

\* A toast was added while another was held, and took its place.
C29_Witness ==
  /\ lastAction.type = "ADD_TOAST"
  /\ lastAction.held = 1
  /\ lastAction.id = 2
  /\ Len(memoryState.toasts) = 1
  /\ memoryState.toasts[1].id = 2

-----------------------------------------------------------------------------
(* Routing.                                                                *)

====
